---- MODULE Spec2Model ----
(***************************************************************************)
(* The two MultiQC report-parsing modules of this repository:              *)
(*   multiqc/modules/adapterRemoval/adapterRemoval.py   (AdapterRemoval)   *)
(*   multiqc/modules/pycoqc/pycoqc.py                   (pycoQC)           *)
(* One behaviour is one construction of one MultiqcModule object: the      *)
(* loop over the files that find_log_files yields, one file per step, and  *)
(* then the tail of __init__ (the "nothing to report" abort or the output  *)
(* calls).  An exception that leaves __init__ ends the behaviour.          *)
(***************************************************************************)
EXTENDS Integers, Sequences, FiniteSets, TLC

VARIABLES
    module,                 \* which MultiqcModule is being constructed
    pc,                     \* "loop", "done", "abort" (UserWarning of __init__), "error"
    exc,                    \* the exception that left __init__ ("" when none)
    found,                  \* ids of the files find_log_files has yielded so far
    calls,                  \* the framework output calls made so far, in order
    s_name,                 \* self.s_name
    read_type,              \* self.__read_type
    collapsed,              \* self.__collapsed ("None", "True", "False")
    result_data,            \* self.result_data
    parsed_data,            \* the local parsed_data of __init__
    adapter_removal_data,   \* self.adapter_removal_data
    len_dist_plot_data,     \* self.len_dist_plot_data
    pycoqc_data,            \* self.pycoqc_data
    table_data,             \* self.table_data
    reads_data,             \* self.reads_data
    bases_data,             \* self.bases_data
    read_lenght_plot_data,  \* self.read_lenght_plot_data
    quality_plot_data,      \* self.quality_plot_data
    scanned,                \* parse_settings_file: the lines of f['f'] read so far
    cur_settings_data,      \* parse_settings_file: the local settings_data
    cur_block_title         \* parse_settings_file: the local block_title

vars == <<module, pc, exc, found, calls, s_name, read_type, collapsed,
          result_data, parsed_data, adapter_removal_data, len_dist_plot_data,
          pycoqc_data, table_data, reads_data, bases_data,
          read_lenght_plot_data, quality_plot_data,
          scanned, cur_settings_data, cur_block_title>>

ar_vars == <<s_name, read_type, collapsed, result_data, parsed_data,
             adapter_removal_data, len_dist_plot_data>>

pq_vars == <<pycoqc_data, table_data, reads_data, bases_data,
             read_lenght_plot_data, quality_plot_data>>

scan_vars == <<scanned, cur_settings_data, cur_block_title>>

\* The longest list of files find_log_files yields in one run.
MaxFiles == 3

\* The longest file the line scanner is followed through line by line.
MaxLines == 4

(***************************************************************************)
(* Python values.  A dict is a function on its keys; None is the record    *)
(* NoneVal where a dict may stand and the string "None" where a string may *)
(* stand.                                                                  *)
(***************************************************************************)
NoneVal == [none |-> TRUE]
IsNone(x) == DOMAIN x = {"none"}
EmptyDict == <<>>
Put(d, k, v) == [x \in DOMAIN d \cup {k} |-> IF x = k THEN v ELSE d[x]]
PyBool(b) == IF b THEN "True" ELSE "False"

(***************************************************************************)
(* Text.  A piece of text between separators is a cell: the text of an     *)
(* integer literal (what int() accepts) or any other text.  A line is      *)
(* empty, a line starting with '[' (with the text strip('[]') leaves of    *)
(* it), a line holding ': ' once ("label: value"), or a line of            *)
(* tab-separated cells (one cell when it holds no tab).                    *)
(***************************************************************************)
Str(x) == [k |-> "s", s |-> x, n |-> 0]
Num(i) == [k |-> "n", s |-> "", n |-> i]
IsInt(c) == c.k = "n"

Blank == [t |-> "blank", title |-> "", c |-> <<>>]
Sec(title) == [t |-> "sec", title |-> title, c |-> <<>>]
KV(label, cell) == [t |-> "kv", title |-> "", c |-> <<Str(label), cell>>]
Tab(cells) == [t |-> "tab", title |-> "", c |-> cells]
Text(x) == Tab(<<Str(x)>>)

\* line == '' after rstrip('\n')
is_empty(line) == line.t = "blank"
\* line.startswith('[')
startswith_bracket(line) == line.t = "sec"
\* line.strip('[]')
strip_brackets(line) == line.title
\* line.split('\t'): a line without a tab is one cell, never an integer
\* when the line holds ': ' or starts with '['
split_tab(line) == IF line.t = "tab" THEN line.c ELSE <<Str(line.t)>>
\* line.split(': '): a line without ': ' is one piece
split_colon(line) == IF line.t = "kv" THEN line.c ELSE <<Str(line.t)>>

(***************************************************************************)
(* The AdapterRemoval settings files find_log_files may yield.  A file is  *)
(* f['s_name'] and the lines of f['f'], laid out as AdapterRemoval writes  *)
(* them: two title lines, the sections the parser ignores, then            *)
(* [Trimming statistics] and [Length distribution].  mode is the run the   *)
(* file reports: "SE" single-end, "PE" paired, "PEC" paired collapsed,     *)
(* "SEC" single-end collapsed.  v picks the numbers; a defect makes the    *)
(* file malformed in one place.                                            *)
(***************************************************************************)
Modes == {"SE", "PE", "PEC", "SEC"}

Defects == {"no_trim", "no_len", "short_trim", "nan_trim", "no_colon",
            "zero_total", "short_row", "nan_row", "short_head", "empty_len"}

ModeHeader(mode) ==
    CASE mode = "SE"  -> <<"Length", "Mate1", "Discarded", "All">>
      [] mode = "PE"  -> <<"Length", "Mate1", "Mate2", "Singleton", "Discarded", "All">>
      [] mode = "PEC" -> <<"Length", "Mate1", "Mate2", "Singleton", "Collapsed",
                           "CollapsedTruncated", "Discarded", "All">>
      [] mode = "SEC" -> <<"Length", "Mate1", "Collapsed", "CollapsedTruncated",
                           "Discarded", "All">>

\* The lines of [Trimming statistics] by mode; the last one ("Average length
\* of retained reads") holds a decimal fraction.
TrimLabels(mode) ==
    CASE mode = "SE"  -> <<"total", "unaligned", "aligned", "discarded m1", "singleton m1",
                           "adapters[1]", "retained", "nucleotides", "average">>
      [] mode = "PE"  -> <<"total", "unaligned", "aligned", "discarded m1", "singleton m1",
                           "discarded m2", "singleton m2", "adapters[1]", "retained",
                           "nucleotides", "average">>
      [] mode = "PEC" -> <<"total", "unaligned", "aligned", "discarded m1", "singleton m1",
                           "discarded m2", "singleton m2", "adapters[1]", "full-length cp",
                           "truncated cp", "retained", "nucleotides", "average">>
      [] mode = "SEC" -> <<"total", "unaligned", "aligned", "discarded m1", "singleton m1",
                           "adapters[1]", "full-length cp", "truncated cp", "retained",
                           "nucleotides", "average">>

\* The number written on the line at offset off (from 0) of [Trimming statistics].
TrimVal(v, off) == IF off = 0 THEN 1000 * v ELSE 100 * v + off

TrimLines(mode, v, defect) ==
    LET labels == TrimLabels(mode)
        n == IF defect = "short_trim" THEN Len(labels) - 6 ELSE Len(labels)
    IN  [i \in 1..n |->
            IF i = Len(labels) THEN KV(labels[i], Str("70.5"))
            ELSE IF defect = "nan_trim" /\ i = 2 THEN KV(labels[i], Str("NA"))
            ELSE IF defect = "no_colon" /\ i = 3 THEN Text(labels[i])
            ELSE IF defect = "zero_total" /\ i = 1 THEN KV(labels[i], Num(0))
            ELSE KV(labels[i], Num(TrimVal(v, i - 1)))]

\* The read lengths the histogram of variant v has rows for.
Lengths(v) == CASE v = 1 -> <<1, 2>> [] v = 2 -> <<2, 3>> [] OTHER -> <<>>

\* The count in column col (from 0) of the row for length l.
RowVal(v, l, col) == 100 * v + 10 * l + col

Row(mode, v, l) ==
    Tab([j \in 1..Len(ModeHeader(mode)) |->
            IF j = 1 THEN Num(l) ELSE Num(RowVal(v, l, j - 1))])

LenLines(mode, v, defect) ==
    LET head == IF defect = "short_head"
                THEN Tab(<<Str("Length"), Str("Mate1")>>)
                ELSE Tab([j \in 1..Len(ModeHeader(mode)) |-> Str(ModeHeader(mode)[j])])
        ls == Lengths(v)
        rows == [i \in 1..Len(ls) |->
                    IF defect = "short_row" /\ i = 2
                    THEN Tab(<<Num(ls[i]), Num(RowVal(v, ls[i], 1))>>)
                    ELSE IF defect = "nan_row" /\ i = 2
                    THEN Tab(<<Num(ls[i]), Str("NA")>>)
                    ELSE Row(mode, v, ls[i])]
    IN  IF defect = "empty_len" THEN <<>> ELSE <<head>> \o rows

MkFile(name, mode, v, defect) ==
    [s_name |-> name,
     f |->    <<Text("AdapterRemoval ver. 2"), Text("Trimming of reads"), Blank,
                Sec("Adapter sequences"), KV("Adapter1[1]", Str("AGATCGGAAG")), Blank>>
           \o (IF defect = "no_trim" THEN <<>>
               ELSE <<Sec("Trimming statistics")>> \o TrimLines(mode, v, defect) \o <<Blank>>)
           \o (IF defect = "no_len" THEN <<>>
               ELSE <<Sec("Length distribution")>> \o LenLines(mode, v, defect))]

F(name, mode, v, defect) == [name |-> name, mode |-> mode, v |-> v, defect |-> defect]

Catalog ==
    << F("s1", "SE", 1, "ok"),   F("s1", "PE", 1, "ok"),   F("s1", "PEC", 2, "ok"),
       F("s2", "PE", 2, "ok"),   F("s2", "PEC", 1, "ok"),  F("s2", "SE", 2, "ok"),
       F("s1", "PE", 3, "ok"),   F("s1", "SEC", 1, "ok"),  F("s2", "SEC", 1, "no_trim"),
       F("s2", "PE", 1, "no_trim"),    F("s2", "PE", 1, "no_len"),
       F("s2", "PE", 1, "short_trim"), F("s2", "PE", 1, "nan_trim"),
       F("s2", "PE", 1, "no_colon"),   F("s2", "PE", 1, "zero_total"),
       F("s2", "PE", 1, "short_row"),  F("s2", "PE", 1, "nan_row"),
       F("s2", "PE", 1, "short_head"), F("s2", "PE", 1, "empty_len") >>

FileIds == 1..Len(Catalog)
File(id) == MkFile(Catalog[id].name, Catalog[id].mode, Catalog[id].v, Catalog[id].defect)

(***************************************************************************)
(* AdapterRemoval: the parser.  Its methods work on the object's fields,   *)
(* here the record st = [s_name, read_type, collapsed, result_data,        *)
(* len_dist_plot_data, exc]; exc names the exception the method raised     *)
(* ("" when it returned), and the fields are as the method left them.      *)
(***************************************************************************)
Categories == <<"mate1", "mate2", "singleton", "collapsed", "collapsed_truncated",
                "discarged", "all">>

EmptyLenDist == [c \in {Categories[i] : i \in 1..Len(Categories)} |-> EmptyDict]

Raise(st, e) == [st EXCEPT !.exc = e]

\* parse_settings_file, one pass of the loop over the lines (lines 85-99):
\* sd is settings_data, bt is block_title (<<>> for None, <<title>>
\* otherwise; 'not block_title' holds of None and of the empty title).
scan_step(sd, bt, line) ==
    IF is_empty(line) THEN [sd |-> sd, bt |-> bt]
    ELSE IF bt = <<>> \/ bt[1] = ""
    THEN [sd |-> Put(sd, "header", Append(sd["header"], line)), bt |-> <<"header">>]
    ELSE IF startswith_bracket(line)
    THEN [sd |-> Put(sd, strip_brackets(line), <<>>), bt |-> <<strip_brackets(line)>>]
    ELSE [sd |-> Put(sd, bt[1], Append(sd[bt[1]], line)), bt |-> bt]

\* parse_settings_file, the loop over the lines from line i on.
RECURSIVE scan_lines(_, _, _, _)
scan_lines(lines, i, sd, bt) ==
    IF i > Len(lines) THEN sd
    ELSE LET r == scan_step(sd, bt, lines[i]) IN
         scan_lines(lines, i + 1, r.sd, r.bt)

set_ar_type_wrong_column(st, len_dist_data) ==
    IF Len(len_dist_data) = 0 THEN Raise(st, "IndexError")
    ELSE LET head_line == split_tab(len_dist_data[1]) IN
         IF Len(head_line) < 3 THEN Raise(st, "IndexError")
         ELSE LET rt == IF head_line[3] = Str("Mate2") THEN "paired" ELSE "single"
                  co == head_line[Len(head_line) - 1] = Str("CollapsedTruncated")
                  st1 == [st EXCEPT !.read_type = rt, !.collapsed = PyBool(co)]
              IN  IF rt = "single" /\ co THEN Raise(st1, "UserWarning") ELSE st1

set_ar_type(st, len_dist_data) ==
    IF Len(len_dist_data) = 0 THEN Raise(st, "IndexError")
    ELSE LET head_line == split_tab(len_dist_data[1]) IN
         IF Len(head_line) < 3 THEN Raise(st, "IndexError")
         ELSE LET rt == IF head_line[3] = Str("Mate2") THEN "paired" ELSE "single"
                  co == head_line[Len(head_line) - 2] = Str("CollapsedTruncated")
                  st1 == [st EXCEPT !.read_type = rt, !.collapsed = PyBool(co)]
              IN  IF rt = "single" /\ co THEN Raise(st1, "UserWarning") ELSE st1

required == <<"total", "unaligned", "aligned", "discarded_m1", "singleton_m1", "retained",
              "discarded_m2", "singleton_m2", "full-length_cp", "truncated_cp">>

data_pattern_retained_fixed(rt, co) ==
    LET base == [total |-> 0, unaligned |-> 1, aligned |-> 2, discarded_m1 |-> 3,
                 singleton_m1 |-> 4, retained |-> 6]
        paired == Put(Put(base, "discarded_m2", 5), "singleton_m2", 6)
    IN  IF rt = "paired"
        THEN IF co # "True"
             THEN paired
             ELSE Put(Put(paired, "full-length_cp", 8), "truncated_cp", 9)
        ELSE base

data_pattern(rt, co) ==
    LET base == [total |-> 0, unaligned |-> 1, aligned |-> 2, discarded_m1 |-> 3,
                 singleton_m1 |-> 4, retained |-> 6]
        paired == Put(Put(base, "discarded_m2", 5), "singleton_m2", 6)
    IN  IF rt = "paired"
        THEN IF co # "True"
             THEN Put(paired, "retained", 8)
             ELSE Put(Put(Put(paired, "full-length_cp", 8), "truncated_cp", 9),
                      "retained", 10)
        ELSE base

\* set_trim_stat, the loop over required: rd is self.result_data.
RECURSIVE trim_loop(_, _, _, _)
trim_loop(rd, pat, trim_data, i) ==
    IF i > Len(required) THEN [rd |-> rd, exc |-> ""]
    ELSE LET field == required[i] IN
         IF field \in DOMAIN pat
         THEN IF pat[field] + 1 > Len(trim_data) THEN [rd |-> rd, exc |-> "IndexError"]
              ELSE LET parts == split_colon(trim_data[pat[field] + 1]) IN
                   IF Len(parts) < 2 THEN [rd |-> rd, exc |-> "IndexError"]
                   ELSE IF ~IsInt(parts[2]) THEN [rd |-> rd, exc |-> "ValueError"]
                   ELSE trim_loop(Put(rd, field, parts[2].n), pat, trim_data, i + 1)
         ELSE trim_loop(Put(rd, field, 0), pat, trim_data, i + 1)

derived_stats_not_doubled(rd, rt) ==
    LET reads_total == rd["total"]
        aligned_total == rd["aligned"]
        unaligned_total == rd["unaligned"]
    IN  Put(Put(Put(Put(Put(rd,
            "aligned_total", aligned_total),
            "unaligned_total", unaligned_total),
            "reads_total", reads_total),
            "discarded_total", reads_total - rd["retained"]),
            "retained_reads", rd["retained"] - rd["singleton_m1"] - rd["singleton_m2"])

derived_stats(rd, rt) ==
    LET reads_total == IF rt = "paired" THEN rd["total"] * 2 ELSE rd["total"]
        aligned_total == IF rt = "paired" THEN rd["aligned"] * 2 ELSE rd["aligned"]
        unaligned_total == IF rt = "paired" THEN rd["unaligned"] * 2 ELSE rd["unaligned"]
    IN  Put(Put(Put(Put(Put(rd,
            "aligned_total", aligned_total),
            "unaligned_total", unaligned_total),
            "reads_total", reads_total),
            "discarded_total", reads_total - rd["retained"]),
            "retained_reads", rd["retained"] - rd["singleton_m1"] - rd["singleton_m2"])

\* round(float(aligned) * 100.0 / float(total), 2) in hundredths, total # 0:
\* the nearest hundredth, a tie going to the even one.
percent_aligned(aligned, total) ==
    LET a == IF total < 0 THEN -aligned ELSE aligned
        t == IF total < 0 THEN -total ELSE total
        q == (a * 10000) \div t
        r == (a * 10000) % t
    IN  IF 2 * r > t \/ (2 * r = t /\ q % 2 = 1) THEN q + 1 ELSE q

set_trim_stat(st, trim_data) ==
    LET lp == trim_loop(st.result_data, data_pattern(st.read_type, st.collapsed),
                        trim_data, 1)
    IN  IF lp.exc # "" THEN Raise([st EXCEPT !.result_data = lp.rd], lp.exc)
        ELSE LET rd == derived_stats(lp.rd, st.read_type) IN
             IF rd["total"] = 0
             THEN Raise([st EXCEPT !.result_data = rd], "ZeroDivisionError")
             ELSE [st EXCEPT !.result_data =
                      Put(rd, "percent_aligned",
                          percent_aligned(rd["aligned"], rd["total"]))]

\* set_len_dist, the assignments of one row by run mode, in the order of the
\* code: <<category, column of l_data>>, column -1 for the literal 0.
len_dist_writes_sparse(rt, co) ==
    IF rt = "single"
    THEN IF co # "True"
         THEN << <<"mate1", 1>>, <<"discarged", 2>>, <<"all", 3>> >>
         ELSE << >>
    ELSE IF co # "True"
         THEN << <<"mate1", 1>>, <<"mate2", 2>>, <<"singleton", 3>>,
                 <<"discarged", 4>>, <<"all", 5>> >>
         ELSE << <<"mate1", 1>>, <<"mate2", 2>>, <<"singleton", 3>>, <<"collapsed", 4>>,
                 <<"collapsed_truncated", 5>>, <<"discarged", 6>>, <<"all", 7>> >>

\* The same with the last two columns of a single-end row taken in the other
\* order.
len_dist_writes_se_swapped(rt, co) ==
    IF rt = "single"
    THEN IF co # "True"
         THEN << <<"mate1", 1>>, <<"mate2", -1>>, <<"singleton", -1>>, <<"collapsed", -1>>,
                 <<"collapsed_truncated", -1>>, <<"discarged", 3>>, <<"all", 2>> >>
         ELSE << >>
    ELSE IF co # "True"
         THEN << <<"mate1", 1>>, <<"mate2", 2>>, <<"singleton", 3>>, <<"collapsed", -1>>,
                 <<"collapsed_truncated", -1>>, <<"discarged", 4>>, <<"all", 5>> >>
         ELSE << <<"mate1", 1>>, <<"mate2", 2>>, <<"singleton", 3>>, <<"collapsed", 4>>,
                 <<"collapsed_truncated", 5>>, <<"discarged", 6>>, <<"all", 7>> >>

len_dist_writes(rt, co) ==
    IF rt = "single"
    THEN IF co # "True"
         THEN << <<"mate1", 1>>, <<"mate2", -1>>, <<"singleton", -1>>, <<"collapsed", -1>>,
                 <<"collapsed_truncated", -1>>, <<"discarged", 2>>, <<"all", 3>> >>
         ELSE << >>
    ELSE IF co # "True"
         THEN << <<"mate1", 1>>, <<"mate2", 2>>, <<"singleton", 3>>, <<"collapsed", -1>>,
                 <<"collapsed_truncated", -1>>, <<"discarged", 4>>, <<"all", 5>> >>
         ELSE << <<"mate1", 1>>, <<"mate2", 2>>, <<"singleton", 3>>, <<"collapsed", 4>>,
                 <<"collapsed_truncated", 5>>, <<"discarged", 6>>, <<"all", 7>> >>

\* The assignments of one row, one after the other, up to the first whose
\* column the row does not have.
RECURSIVE apply_writes(_, _, _, _, _)
apply_writes(ld, s, l_data, ws, i) ==
    IF i > Len(ws) THEN [ld |-> ld, exc |-> ""]
    ELSE LET cat == ws[i][1]
             col == ws[i][2]
         IN  IF col + 1 > Len(l_data) THEN [ld |-> ld, exc |-> "IndexError"]
             ELSE apply_writes(
                      [ld EXCEPT ![cat] =
                          Put(ld[cat], s,
                              Put(ld[cat][s], l_data[1],
                                  IF col < 0 THEN 0 ELSE l_data[col + 1]))],
                      s, l_data, ws, i + 1)

\* "initialize file name": the test reads the 'mate1' category alone.
init_sample(ld, s) ==
    IF s \notin DOMAIN ld["mate1"]
    THEN [c \in DOMAIN ld |-> Put(ld[c], s, EmptyDict)]
    ELSE ld

\* set_len_dist, the loop over len_dist_data[1:].
RECURSIVE row_loop(_, _, _, _, _)
row_loop(ld, s, ws, len_dist_data, i) ==
    IF i > Len(len_dist_data) THEN [ld |-> ld, exc |-> ""]
    ELSE LET cells == split_tab(len_dist_data[i]) IN
         IF \E j \in 1..Len(cells) : ~IsInt(cells[j])
         THEN [ld |-> ld, exc |-> "ValueError"]
         ELSE LET l_data == [j \in 1..Len(cells) |-> cells[j].n]
                  w == apply_writes(init_sample(ld, s), s, l_data, ws, 1)
              IN  IF w.exc # "" THEN w
                  ELSE row_loop(w.ld, s, ws, len_dist_data, i + 1)

set_len_dist(st, len_dist_data) ==
    LET r == row_loop(st.len_dist_plot_data, st.s_name,
                      len_dist_writes(st.read_type, st.collapsed), len_dist_data, 2)
    IN  Raise([st EXCEPT !.len_dist_plot_data = r.ld], r.exc)

set_result_data(st, settings_data) ==
    IF "Length distribution" \notin DOMAIN settings_data THEN Raise(st, "KeyError")
    ELSE LET a == set_ar_type(st, settings_data["Length distribution"]) IN
         IF a.exc # "" THEN a
         ELSE IF "Trimming statistics" \notin DOMAIN settings_data THEN Raise(a, "KeyError")
         ELSE LET b == set_trim_stat(a, settings_data["Trimming statistics"]) IN
              IF b.exc # "" THEN b
              ELSE set_len_dist(b, settings_data["Length distribution"])

\* self.result_data as lines 71-78 set it: six keys, each None.  A key that
\* holds None is left out of the function (a key holds None or an integer,
\* and only the integers are ever read); NoneKeys are the keys concerned.
NoneKeys == {"total", "unaligned", "aligned", "reads_total", "retained", "percent_aligned"}
ResultInit == EmptyDict

\* parse_settings_file: the value returned is the result_data field of the
\* record returned (self.result_data), when exc = "".
parse_settings_file(st, f) ==
    set_result_data([st EXCEPT !.result_data = ResultInit, !.exc = ""],
                    scan_lines(f.f, 1, [header |-> <<>>], <<>>))

(***************************************************************************)
(* AdapterRemoval: __init__.  The object is the record of its fields, with *)
(* the local parsed_data; exc is the exception that leaves the loop body.  *)
(***************************************************************************)
\* One pass of the loop of __init__ without its try/except.
ar_loop_body_no_except(st, f) ==
    LET r == parse_settings_file([st EXCEPT !.s_name = f.s_name], f) IN
    IF r.exc # "" THEN r
    ELSE LET pd == r.result_data IN
         [r EXCEPT !.parsed_data = pd,
                   !.adapter_removal_data = IF ~IsNone(pd) THEN Put(@, r.s_name, pd) ELSE @]

\* One pass of the loop of __init__ with "continue" replaced by "pass".
ar_loop_body_pass(st, f) ==
    LET r == parse_settings_file([st EXCEPT !.s_name = f.s_name], f) IN
    IF r.exc # "" /\ r.exc # "UserWarning" THEN r
    ELSE LET pd == IF r.exc = "" THEN r.result_data ELSE st.parsed_data IN
         [r EXCEPT !.exc = "",
                   !.parsed_data = pd,
                   !.adapter_removal_data = IF ~IsNone(pd) THEN Put(@, r.s_name, pd) ELSE @]

\* One pass of the loop of __init__ with "except UserWarning" widened to
\* every exception.
ar_loop_body_catch_all(st, f) ==
    LET r == parse_settings_file([st EXCEPT !.s_name = f.s_name], f) IN
    IF r.exc # "" THEN [r EXCEPT !.exc = ""]
    ELSE LET pd == r.result_data IN
         [r EXCEPT !.parsed_data = pd,
                   !.adapter_removal_data = IF ~IsNone(pd) THEN Put(@, r.s_name, pd) ELSE @]

\* One pass of the loop of __init__ (lines 43-49) on file f.
ar_loop_body(st, f) ==
    LET r == parse_settings_file([st EXCEPT !.s_name = f.s_name], f) IN
    IF r.exc = "UserWarning" THEN [r EXCEPT !.exc = ""]
    ELSE IF r.exc # "" THEN r
    ELSE LET pd == r.result_data IN
         [r EXCEPT !.parsed_data = pd,
                   !.adapter_removal_data = IF ~IsNone(pd) THEN Put(@, r.s_name, pd) ELSE @]

ArCalls == <<"write_data_file", "general_stats_addcols", "bargraph.plot", "add_section",
             "linegraph.plot", "add_section">>

\* The tail of __init__ with the data file written before the test for
\* "no reports".
ar_finish_write_first(data) ==
    IF Cardinality(DOMAIN data) = 0
    THEN [pc |-> "abort", exc |-> "UserWarning", calls |-> <<"write_data_file">>]
    ELSE [pc |-> "done", exc |-> "", calls |-> ArCalls]

\* The tail of __init__ (lines 51-67).
ar_finish(data) ==
    IF Cardinality(DOMAIN data) = 0
    THEN [pc |-> "abort", exc |-> "UserWarning", calls |-> <<>>]
    ELSE [pc |-> "done", exc |-> "", calls |-> ArCalls]

Self == [s_name |-> s_name, read_type |-> read_type, collapsed |-> collapsed,
         result_data |-> result_data, len_dist_plot_data |-> len_dist_plot_data,
         adapter_removal_data |-> adapter_removal_data, parsed_data |-> parsed_data,
         exc |-> ""]

\* find_log_files yields one more file and the loop body runs on it.
ar_next_file ==
    /\ module = "adapterRemoval"
    /\ pc = "loop"
    /\ Len(found) < MaxFiles
    /\ \E id \in FileIds :
          LET r == ar_loop_body(Self, File(id)) IN
          /\ found' = Append(found, id)
          /\ s_name' = r.s_name
          /\ read_type' = r.read_type
          /\ collapsed' = r.collapsed
          /\ result_data' = r.result_data
          /\ parsed_data' = r.parsed_data
          /\ adapter_removal_data' = r.adapter_removal_data
          /\ len_dist_plot_data' = r.len_dist_plot_data
          /\ pc' = IF r.exc = "" THEN "loop" ELSE "error"
          /\ exc' = r.exc
    /\ UNCHANGED <<module, calls, pq_vars, scan_vars>>

\* find_log_files is exhausted: lines 51-67.
ar_report ==
    /\ module = "adapterRemoval"
    /\ pc = "loop"
    /\ LET r == ar_finish(adapter_removal_data) IN
          /\ pc' = r.pc
          /\ exc' = r.exc
          /\ calls' = calls \o r.calls
    /\ UNCHANGED <<module, found, ar_vars, pq_vars, scan_vars>>

(***************************************************************************)
(* pycoQC: the YAML summaries find_log_files may yield.  f['f'] is the     *)
(* document's top-level entries in file order, each <<key, value>>; v      *)
(* picks the numbers and pass the 'Pass Reads' section.                    *)
(***************************************************************************)
PqDefects == {"empty", "no_pass", "no_p50"}

PqBase(v, pass) == 1000 * v + (IF pass THEN 0 ELSE 500)

PqSection(v, pass, defect) ==
    LET b == PqBase(v, pass)
        ps == IF defect = "no_p50" /\ pass THEN {10, 90} ELSE {10, 50, 90}
    IN  [basecall |->
            [len_percentiles |-> [q \in ps |-> b + q],
             qual_score_percentiles |-> [q \in ps |-> v + q],
             N50 |-> b + 7,
             reads_number |-> b + 1,
             bases_number |-> 10 * b,
             len_hist |-> [x |-> IF v = 1 THEN <<1, 2, 3>> ELSE <<1, 2, 2, 4>>,
                           y |-> <<b + 5, b + 6, b + 7>>],
             qual_score_hist |-> [x |-> <<7, 8>>, y |-> <<v, v + 1>>]],
         run |-> [run_duration |-> 48 + v,
                  active_channels |-> IF pass THEN 400 + v ELSE 500 + v]]

MkPqFile(name, v, defect) ==
    [s_name |-> name,
     f |-> IF defect = "empty" THEN <<>>
           ELSE    << <<"pycoqc", [version |-> v]>>,
                      <<"All Reads", PqSection(v, FALSE, defect)>> >>
                \o (IF defect = "no_pass" THEN << >>
                    ELSE << <<"Pass Reads", PqSection(v, TRUE, defect)>> >>)]

P(name, v, defect) == [name |-> name, v |-> v, defect |-> defect]

PqCatalog ==
    << P("s1", 1, "ok"), P("s1", 2, "ok"), P("s2", 1, "ok"), P("s2", 2, "ok"),
       P("s1", 1, "empty"), P("s2", 1, "no_pass"), P("s2", 2, "no_p50") >>

PqFileIds == 1..Len(PqCatalog)
PqFile(id) == MkPqFile(PqCatalog[id].name, PqCatalog[id].v, PqCatalog[id].defect)

(***************************************************************************)
(* pycoQC: the parser and __init__.                                        *)
(***************************************************************************)
\* yaml.load on the document: None for an empty document, otherwise the
\* mapping of its top-level keys, a repeated key keeping its last value.
parse_logs(f) ==
    IF Len(f) = 0 THEN NoneVal
    ELSE [k \in {f[i][1] : i \in 1..Len(f)} |->
             f[CHOOSE i \in 1..Len(f) :
                  /\ f[i][1] = k
                  /\ \A j \in (i + 1)..Len(f) : f[j][1] # k][2]]

\* dict(zip(x, y))
zip_dict(x, y) ==
    LET n == IF Len(x) < Len(y) THEN Len(x) ELSE Len(y) IN
    [k \in {x[i] : i \in 1..n} |->
        y[CHOOSE i \in 1..n : x[i] = k /\ \A j \in (i + 1)..n : x[j] # k]]

\* The exception the body of the loop of setup_data raises on sample_data
\* ("" when none).
sample_exc(d) ==
    IF IsNone(d) THEN "TypeError"
    ELSE IF \/ "All Reads" \notin DOMAIN d
            \/ 50 \notin DOMAIN d["All Reads"]["basecall"]["len_percentiles"]
            \/ 50 \notin DOMAIN d["All Reads"]["basecall"]["qual_score_percentiles"]
            \/ "Pass Reads" \notin DOMAIN d
            \/ 50 \notin DOMAIN d["Pass Reads"]["basecall"]["len_percentiles"]
            \/ 50 \notin DOMAIN d["Pass Reads"]["basecall"]["qual_score_percentiles"]
         THEN "KeyError"
         ELSE ""

table_record_no_duration(d) ==
    LET a == d["All Reads"]
        p == d["Pass Reads"]
    IN  [all_median_read_length |-> a["basecall"]["len_percentiles"][50],
         all_median_phred_score |-> a["basecall"]["qual_score_percentiles"][50],
         all_n50 |-> a["basecall"]["N50"],
         all_channels |-> a["run"]["active_channels"],
         all_reads |-> a["basecall"]["reads_number"],
         all_bases |-> a["basecall"]["bases_number"],
         passed_median_read_length |-> p["basecall"]["len_percentiles"][50],
         passed_median_phred_score |-> p["basecall"]["qual_score_percentiles"][50],
         passed_n50 |-> p["basecall"]["N50"],
         passed_channels |-> p["run"]["active_channels"],
         passed_reads |-> p["basecall"]["reads_number"],
         passed_bases |-> p["basecall"]["bases_number"]]

\* data_for_table[sample] of setup_data (lines 188-202).
table_record(d) ==
    LET a == d["All Reads"]
        p == d["Pass Reads"]
    IN  [all_median_read_length |-> a["basecall"]["len_percentiles"][50],
         all_median_phred_score |-> a["basecall"]["qual_score_percentiles"][50],
         all_n50 |-> a["basecall"]["N50"],
         all_run_duration |-> a["run"]["run_duration"],
         all_channels |-> a["run"]["active_channels"],
         all_reads |-> a["basecall"]["reads_number"],
         all_bases |-> a["basecall"]["bases_number"],
         passed_median_read_length |-> p["basecall"]["len_percentiles"][50],
         passed_median_phred_score |-> p["basecall"]["qual_score_percentiles"][50],
         passed_n50 |-> p["basecall"]["N50"],
         passed_channels |-> p["run"]["active_channels"],
         passed_reads |-> p["basecall"]["reads_number"],
         passed_bases |-> p["basecall"]["bases_number"]]

\* setup_data: order is the order of pycoqc_data.items(), the order in which
\* the sample names were first inserted.  The five values returned are
\* assigned to the object only when no sample raised.
setup_data(data, order) ==
    LET bad == {i \in 1..Len(order) : sample_exc(data[order[i]]) # ""}
        S == DOMAIN data
        hist(sec, h) == [s \in S |-> zip_dict(data[s][sec]["basecall"][h]["x"],
                                              data[s][sec]["basecall"][h]["y"])]
    IN  IF bad # {}
        THEN [exc |-> sample_exc(data[order[CHOOSE i \in bad : \A j \in bad : i <= j]])]
        ELSE [exc |-> "",
              table_data |-> [s \in S |-> table_record(data[s])],
              reads_data |-> [s \in S |->
                  [passed_reads |-> data[s]["Pass Reads"]["basecall"]["reads_number"],
                   non_passed_reads |-> data[s]["All Reads"]["basecall"]["reads_number"]
                                      - data[s]["Pass Reads"]["basecall"]["reads_number"]]],
              bases_data |-> [s \in S |->
                  [passed_bases |-> data[s]["Pass Reads"]["basecall"]["bases_number"],
                   non_passed_bases |-> data[s]["All Reads"]["basecall"]["bases_number"]
                                      - data[s]["Pass Reads"]["basecall"]["bases_number"]]],
              read_lenght_plot_data |-> <<hist("All Reads", "len_hist"),
                                          hist("Pass Reads", "len_hist")>>,
              quality_plot_data |-> <<hist("All Reads", "qual_score_hist"),
                                      hist("Pass Reads", "qual_score_hist")>>]

\* The sample names of the files found so far, each at its first occurrence.
RECURSIVE first_seen(_, _)
first_seen(names, i) ==
    IF i = 0 THEN <<>>
    ELSE LET before == first_seen(names, i - 1) IN
         IF \E j \in 1..(i - 1) : names[j] = names[i] THEN before
         ELSE Append(before, names[i])

PqCalls == <<"general_stats_addcols", "write_data_file", "table.plot", "add_section",
             "table.plot", "add_section", "bargraph.plot", "add_section",
             "bargraph.plot", "add_section", "linegraph.plot", "add_section",
             "linegraph.plot", "add_section">>

\* One more file, an entry already held under its name being kept.
pq_next_file_keep_first ==
    /\ module = "pycoqc"
    /\ pc = "loop"
    /\ Len(found) < MaxFiles
    /\ \E id \in PqFileIds :
          /\ found' = Append(found, id)
          /\ pycoqc_data' = IF PqFile(id).s_name \in DOMAIN pycoqc_data THEN pycoqc_data
                            ELSE Put(pycoqc_data, PqFile(id).s_name, parse_logs(PqFile(id).f))
    /\ UNCHANGED <<module, pc, exc, calls, ar_vars, table_data, reads_data, bases_data,
                   read_lenght_plot_data, quality_plot_data, scan_vars>>

\* find_log_files yields one more file: lines 24-26.
pq_next_file ==
    /\ module = "pycoqc"
    /\ pc = "loop"
    /\ Len(found) < MaxFiles
    /\ \E id \in PqFileIds :
          /\ found' = Append(found, id)
          /\ pycoqc_data' = Put(pycoqc_data, PqFile(id).s_name, parse_logs(PqFile(id).f))
    /\ UNCHANGED <<module, pc, exc, calls, ar_vars, table_data, reads_data, bases_data,
                   read_lenght_plot_data, quality_plot_data, scan_vars>>

\* find_log_files is exhausted: lines 28-177.
pq_report ==
    /\ module = "pycoqc"
    /\ pc = "loop"
    /\ IF Cardinality(DOMAIN pycoqc_data) = 0
       THEN /\ pc' = "abort"
            /\ exc' = "UserWarning"
            /\ UNCHANGED <<calls, table_data, reads_data, bases_data,
                           read_lenght_plot_data, quality_plot_data>>
       ELSE LET r == setup_data(pycoqc_data,
                                first_seen([i \in 1..Len(found) |-> PqCatalog[found[i]].name],
                                           Len(found)))
            IN  IF r.exc # ""
                THEN /\ pc' = "error"
                     /\ exc' = r.exc
                     /\ UNCHANGED <<calls, table_data, reads_data, bases_data,
                                    read_lenght_plot_data, quality_plot_data>>
                ELSE /\ pc' = "done"
                     /\ exc' = ""
                     /\ table_data' = r.table_data
                     /\ reads_data' = r.reads_data
                     /\ bases_data' = r.bases_data
                     /\ read_lenght_plot_data' = r.read_lenght_plot_data
                     /\ quality_plot_data' = r.quality_plot_data
                     /\ calls' = calls \o PqCalls
    /\ UNCHANGED <<module, found, ar_vars, pycoqc_data, scan_vars>>

(***************************************************************************)
(* The specification: the state after the fields of __init__ are set       *)
(* (adapterRemoval.py lines 26-41, pycoqc.py line 22), and the steps.      *)
(***************************************************************************)
Init ==
    /\ module \in {"adapterRemoval", "pycoqc"}
    /\ pc = "loop"
    /\ exc = ""
    /\ found = <<>>
    /\ calls = <<>>
    /\ s_name = "None"
    /\ read_type = "None"
    /\ collapsed = "None"
    /\ result_data = NoneVal
    /\ parsed_data = NoneVal
    /\ adapter_removal_data = EmptyDict
    /\ len_dist_plot_data = EmptyLenDist
    /\ pycoqc_data = EmptyDict
    /\ table_data = NoneVal
    /\ reads_data = NoneVal
    /\ bases_data = NoneVal
    /\ read_lenght_plot_data = NoneVal
    /\ quality_plot_data = NoneVal
    /\ scanned = <<>>
    /\ cur_settings_data = [header |-> <<>>]
    /\ cur_block_title = <<>>

Next == ar_next_file \/ ar_report \/ pq_next_file \/ pq_report

Spec == Init /\ [][Next]_vars

(***************************************************************************)
(* The line scanner of parse_settings_file followed line by line through   *)
(* one file: the lines a file may hold, and one step per line read.        *)
(***************************************************************************)
ScanAlphabet == {Blank, Text("x"), KV("k", Num(1)), Sec("A"), Sec("B"), Sec("header"),
                 Sec("")}

\* for i, line in enumerate(f['f']): one more line is read (lines 83-99).
scan_line ==
    /\ module = "adapterRemoval"
    /\ pc = "loop"
    /\ found = <<>>
    /\ Len(scanned) < MaxLines
    /\ \E line \in ScanAlphabet :
          LET r == scan_step(cur_settings_data, cur_block_title, line) IN
          /\ scanned' = Append(scanned, line)
          /\ cur_settings_data' = r.sd
          /\ cur_block_title' = r.bt
    /\ UNCHANGED <<module, pc, exc, found, calls, ar_vars, pq_vars>>

ScanInit == Init /\ module = "adapterRemoval"

ScanNext == scan_line

ScanSpec == ScanInit /\ [][ScanNext]_vars

(***************************************************************************)
(* What the claims speak of, read off the input files themselves.          *)
(***************************************************************************)
AR == module = "adapterRemoval"
PQ == module = "pycoqc"
Ended == pc \in {"done", "abort"}
Idx == 1..Len(found)

\* The file still has its [Length distribution] header line.
HeaderIntact(id) == Catalog[id].defect \notin {"no_len", "short_head", "empty_len"}
\* The file has the single-end + collapsed combination.
Unsupported(id) == Catalog[id].mode = "SEC" /\ HeaderIntact(id)
\* The file is malformed and is not of the single-end + collapsed combination.
Malformed(id) == Catalog[id].defect # "ok" /\ ~Unsupported(id)
WellFormed(id) == Catalog[id].defect = "ok" /\ ~Unsupported(id)
Paired(id) == Catalog[id].mode \in {"PE", "PEC"}

\* The place in found of the last well-formed supported file of sample s
\* (0 when there is none).
LastAccepted(s) ==
    LET I == {i \in Idx : Catalog[found[i]].name = s /\ WellFormed(found[i])} IN
    IF I = {} THEN 0 ELSE CHOOSE i \in I : \A j \in I : j <= i

CategorySet == {Categories[i] : i \in 1..Len(Categories)}

\* C1: in both modules, when find_log_files yields no file the construction
\* ends in the UserWarning abort, and no output call has been made when the
\* abort is raised.
C1_NoFilesAbort ==
    /\ (found = <<>> /\ pc # "loop") => (pc = "abort" /\ exc = "UserWarning")
    /\ pc = "abort" => calls = <<>>

C1_Witness == AR /\ pc = "abort" /\ found = <<>> /\ calls = <<>>

\* C2 as stated: whenever some input file has the single-end + collapsed
\* combination, the construction of the AdapterRemoval module ends in the
\* UserWarning abort.
C2_Original ==
    (AR /\ Ended /\ \E i \in Idx : Unsupported(found[i]))
        => (pc = "abort" /\ exc = "UserWarning")

\* C2 amended: a file with the single-end + collapsed combination never ends
\* the construction by itself (its UserWarning is caught by the loop), and a
\* construction whose loop has ended ends in the UserWarning abort exactly
\* when every file found (if any) has that combination.
C2_AbortIffNothingAccepted ==
    /\ (AR /\ found # <<>> /\ Unsupported(found[Len(found)])) => pc # "error"
    /\ (AR /\ Ended) =>
          ((pc = "abort" /\ exc = "UserWarning") <=> \A i \in Idx : Unsupported(found[i]))

C2_Witness == AR /\ pc = "abort" /\ Len(found) >= 2

\* C3: a single-end + collapsed file is skipped and nothing else: the step
\* that processes it changes neither adapter_removal_data nor any of the
\* seven length-distribution categories and leaves the loop running, and
\* after the loop the sample names of adapter_removal_data are exactly those
\* of the files that were not skipped.
C3_StepSkips ==
    /\ (AR /\ Len(found') = Len(found) + 1 /\ Unsupported(found'[Len(found')]))
          => /\ adapter_removal_data' = adapter_removal_data
             /\ len_dist_plot_data' = len_dist_plot_data
             /\ pc' = "loop"
    /\ (AR /\ pc' \in {"done", "abort"})
          => DOMAIN adapter_removal_data' =
                {Catalog[found'[i]].name :
                    i \in {j \in 1..Len(found') : ~Unsupported(found'[j])}}

C3_SkippedOnly == [][C3_StepSkips]_vars

C3_Witness ==
    /\ AR /\ pc = "done"
    /\ \E i, j \in Idx : /\ i < j
                         /\ Unsupported(found[i])
                         /\ WellFormed(found[j])
                         /\ Catalog[found[j]].name # Catalog[found[i]].name
    /\ Cardinality(DOMAIN adapter_removal_data) = 1

\* The object as __init__ has set it up before the loop.
Fresh == [s_name |-> "None", read_type |-> "None", collapsed |-> "None",
          result_data |-> NoneVal, len_dist_plot_data |-> EmptyLenDist,
          adapter_removal_data |-> EmptyDict, parsed_data |-> NoneVal, exc |-> ""]

\* What a dict holds for key k: <<value>>, or <<>> when k is no key of it.
Get(d, k) == IF k \in DOMAIN d THEN <<d[k]>> ELSE <<>>

SampleNames == {Catalog[i].name : i \in FileIds}

\* C4: the parser is stateless between samples: after the loop, what is
\* stored for a sample name (its statistics record and its length bins in
\* each of the seven categories) is what its last accepted file alone would
\* have stored, whatever files were processed before it; a name with no
\* accepted file has nothing stored.
C4_Stateless ==
    (AR /\ Ended) =>
        \A s \in SampleNames :
            LET i == LastAccepted(s) IN
            IF i = 0
            THEN /\ s \notin DOMAIN adapter_removal_data
                 /\ \A c \in CategorySet : s \notin DOMAIN len_dist_plot_data[c]
            ELSE LET alone == ar_loop_body(Fresh, File(found[i])) IN
                 /\ Get(adapter_removal_data, s) = Get(alone.adapter_removal_data, s)
                 /\ \A c \in CategorySet :
                       Get(len_dist_plot_data[c], s) = Get(alone.len_dist_plot_data[c], s)

\* C5: a file that fails to parse for another reason than the single-end +
\* collapsed combination is not skipped and not recovered from: once such a
\* file has been processed it is the last file processed, the construction
\* has ended in its error (not the UserWarning abort), and no output call
\* has been made.
C5_MalformedPropagates ==
    AR => \A i \in Idx :
             Malformed(found[i]) =>
                /\ i = Len(found)
                /\ pc = "error"
                /\ exc \in {"KeyError", "IndexError", "ValueError", "ZeroDivisionError"}
                /\ calls = <<>>

C5_Witness ==
    /\ AR /\ pc = "error" /\ Len(found) >= 2
    /\ Malformed(found[Len(found)])
    /\ adapter_removal_data # EmptyDict

\* C6: the run mode is read off the header line of [Length distribution]
\* alone (paired iff its third column is 'Mate2', collapsed iff its
\* third-from-last column is 'CollapsedTruncated'), and before anything else
\* of the file: it is set whatever the trimming statistics and the histogram
\* rows hold, a single-end + collapsed file is skipped with no statistic
\* read, and a file without that header line fails with no statistic read.
C6_Classification ==
    (AR /\ found # <<>>) =>
        LET id == found[Len(found)]
            h == ModeHeader(Catalog[id].mode)
            paired == h[3] = "Mate2"
            coll == h[Len(h) - 2] = "CollapsedTruncated"
        IN  IF HeaderIntact(id)
            THEN /\ read_type = (IF paired THEN "paired" ELSE "single")
                 /\ collapsed = PyBool(coll)
                 /\ (~paired /\ coll) => (pc # "error" /\ result_data = ResultInit)
            ELSE pc = "error" /\ result_data = ResultInit

C6_Witness ==
    /\ AR /\ found # <<>> /\ pc = "loop"
    /\ Catalog[found[Len(found)]].mode = "SEC"
    /\ Catalog[found[Len(found)]].defect = "no_trim"
    /\ read_type = "single" /\ collapsed = "True"

\* C7: in every stored record reads_total, aligned_total and unaligned_total
\* are total, aligned and unaligned (twice those for a paired run),
\* discarded_total = reads_total - retained and
\* retained_reads = retained - singleton_m1 - singleton_m2.
C7_DerivedStats ==
    AR => \A s \in DOMAIN adapter_removal_data :
             LET r == adapter_removal_data[s]
                 k == IF Paired(found[LastAccepted(s)]) THEN 2 ELSE 1
             IN  /\ r["reads_total"] = k * r["total"]
                 /\ r["aligned_total"] = k * r["aligned"]
                 /\ r["unaligned_total"] = k * r["unaligned"]
                 /\ r["discarded_total"] = r["reads_total"] - r["retained"]
                 /\ r["retained_reads"] =
                       r["retained"] - r["singleton_m1"] - r["singleton_m2"]
                 /\ r["discarded_total"] + r["retained"] = r["reads_total"]
                 /\ r["retained_reads"] + r["singleton_m1"] + r["singleton_m2"]
                       = r["retained"]

C7_Witness ==
    /\ AR /\ pc = "done"
    /\ \E s, t \in DOMAIN adapter_removal_data :
          /\ adapter_removal_data[s]["reads_total"] = adapter_removal_data[s]["total"]
          /\ adapter_removal_data[t]["reads_total"] = 2 * adapter_removal_data[t]["total"]

\* C8: unless a file has failed to parse, the seven length-distribution
\* categories hold the same sample names and, for each sample name, the same
\* length bins.
C8_SameKeys ==
    (AR /\ pc # "error") =>
        \A c \in CategorySet :
            /\ DOMAIN len_dist_plot_data[c] = DOMAIN len_dist_plot_data["mate1"]
            /\ \A s \in DOMAIN len_dist_plot_data[c] :
                  DOMAIN len_dist_plot_data[c][s] = DOMAIN len_dist_plot_data["mate1"][s]

C8_Witness ==
    /\ AR /\ pc = "done"
    /\ Cardinality(DOMAIN len_dist_plot_data["all"]) = 2
    /\ \E s \in DOMAIN len_dist_plot_data["all"] :
          /\ Cardinality(DOMAIN len_dist_plot_data["all"][s]) = 2
          /\ len_dist_plot_data["collapsed"][s] = [l \in {1, 2} |-> 0]
          /\ \E l \in {1, 2} : len_dist_plot_data["all"][s][l] # 0

\* The place in found of the last file of sample s (pycoQC).
PqLast(s) == CHOOSE i \in Idx : /\ PqCatalog[found[i]].name = s
                                /\ \A j \in Idx : PqCatalog[found[j]].name = s => j <= i

TableKeys == {"all_median_read_length", "all_median_phred_score", "all_n50",
              "all_run_duration", "all_channels", "all_reads", "all_bases",
              "passed_median_read_length", "passed_median_phred_score", "passed_n50",
              "passed_channels", "passed_reads", "passed_bases"}

\* C9: once the pycoQC module is constructed, the table data holds, for each
\* sample name parsed and no other, one record of exactly 13 fields (the
\* medians at percentile key 50, N50, active channels, read and base counts
\* of 'All Reads' and 'Pass Reads', and the run duration of 'All Reads'),
\* and the reads data, the bases data and the four histogram mappings have
\* exactly the parsed sample names as keys.
C9_FlatRecords ==
    (PQ /\ pc = "done") =>
        LET S == {PqCatalog[found[i]].name : i \in Idx} IN
        /\ DOMAIN pycoqc_data = S
        /\ DOMAIN table_data = S
        /\ DOMAIN reads_data = S
        /\ DOMAIN bases_data = S
        /\ Len(read_lenght_plot_data) = 2
        /\ Len(quality_plot_data) = 2
        /\ \A k \in 1..2 : /\ DOMAIN read_lenght_plot_data[k] = S
                           /\ DOMAIN quality_plot_data[k] = S
        /\ \A s \in S :
              LET v == PqCatalog[found[PqLast(s)]].v
                  a == PqBase(v, FALSE)
                  p == PqBase(v, TRUE)
                  t == table_data[s]
              IN  /\ DOMAIN t = TableKeys
                  /\ Cardinality(DOMAIN t) = 13
                  /\ t["all_median_read_length"] = a + 50
                  /\ t["all_median_phred_score"] = v + 50
                  /\ t["all_n50"] = a + 7
                  /\ t["all_run_duration"] = 48 + v
                  /\ t["all_channels"] = 500 + v
                  /\ t["all_reads"] = a + 1
                  /\ t["all_bases"] = 10 * a
                  /\ t["passed_median_read_length"] = p + 50
                  /\ t["passed_median_phred_score"] = v + 50
                  /\ t["passed_n50"] = p + 7
                  /\ t["passed_channels"] = 400 + v
                  /\ t["passed_reads"] = p + 1
                  /\ t["passed_bases"] = 10 * p

C9_Witness ==
    /\ PQ /\ pc = "done" /\ Len(found) = MaxFiles
    /\ Cardinality(DOMAIN table_data) = 2
    /\ \E s, t \in DOMAIN table_data :
          table_data[s]["all_n50"] # table_data[t]["all_n50"]

\* C10: the ten trimming statistics of a stored record are the numbers at
\* the fixed offsets of [Trimming statistics] for the run mode of its file
\* (total, unaligned, aligned, discarded_m1, singleton_m1 at 0..4; retained
\* at 6 single-end, 8 paired, 10 paired collapsed; discarded_m2 and
\* singleton_m2 at 5 and 6 when paired; full-length_cp and truncated_cp at 8
\* and 9 when paired collapsed), every field the mode does not read is 0,
\* and no field is left unset.
C10_Offsets ==
    AR => \A s \in DOMAIN adapter_removal_data :
             LET r == adapter_removal_data[s]
                 id == found[LastAccepted(s)]
                 m == Catalog[id].mode
                 v == Catalog[id].v
             IN  /\ {required[i] : i \in 1..Len(required)} \cup NoneKeys \subseteq DOMAIN r
                 /\ r["total"] = TrimVal(v, 0)
                 /\ r["unaligned"] = TrimVal(v, 1)
                 /\ r["aligned"] = TrimVal(v, 2)
                 /\ r["discarded_m1"] = TrimVal(v, 3)
                 /\ r["singleton_m1"] = TrimVal(v, 4)
                 /\ r["retained"] = TrimVal(v, CASE m = "SE" -> 6
                                                 [] m = "PE" -> 8
                                                 [] m = "PEC" -> 10)
                 /\ r["discarded_m2"] = IF m = "SE" THEN 0 ELSE TrimVal(v, 5)
                 /\ r["singleton_m2"] = IF m = "SE" THEN 0 ELSE TrimVal(v, 6)
                 /\ r["full-length_cp"] = IF m = "PEC" THEN TrimVal(v, 8) ELSE 0
                 /\ r["truncated_cp"] = IF m = "PEC" THEN TrimVal(v, 9) ELSE 0

C10_Witness ==
    /\ AR /\ pc = "done"
    /\ \E s, t \in DOMAIN adapter_removal_data :
          /\ adapter_removal_data[s]["full-length_cp"] # 0
          /\ adapter_removal_data[t]["singleton_m2"] = 0

\* C11: unless a file has failed to parse, the bins stored for a sample are
\* the lengths of the data rows of its accepted files and nothing else (the
\* header row is no bin), and the value of each bin in each category is the
\* column of the last row read for that length that the run mode of its file
\* assigns: single-end mate1 1, discarded 2, all 3, the other four 0; paired
\* mate1, mate2, singleton, discarded, all 1, 2, 3, 4, 5, the two collapsed
\* categories 0; paired collapsed the seven categories columns 1 to 7.
C11_RowMapping ==
    (AR /\ pc # "error") =>
        \A s \in SampleNames :
            LET I == {i \in Idx : Catalog[found[i]].name = s /\ WellFormed(found[i])}
                Ls(i) == LET ls == Lengths(Catalog[found[i]].v)
                         IN  {ls[k] : k \in 1..Len(ls)}
                bins == UNION {Ls(i) : i \in I}
                col(m, c) ==
                    CASE m = "SE" ->
                           (CASE c = "mate1" -> 1 [] c = "discarged" -> 2
                              [] c = "all" -> 3 [] OTHER -> 0)
                      [] m = "PE" ->
                           (CASE c = "mate1" -> 1 [] c = "mate2" -> 2
                              [] c = "singleton" -> 3 [] c = "discarged" -> 4
                              [] c = "all" -> 5 [] OTHER -> 0)
                      [] m = "PEC" ->
                           (CASE c = "mate1" -> 1 [] c = "mate2" -> 2
                              [] c = "singleton" -> 3 [] c = "collapsed" -> 4
                              [] c = "collapsed_truncated" -> 5
                              [] c = "discarged" -> 6 [] c = "all" -> 7)
            IN  \A c \in CategorySet :
                    IF bins = {} THEN s \notin DOMAIN len_dist_plot_data[c]
                    ELSE /\ s \in DOMAIN len_dist_plot_data[c]
                         /\ DOMAIN len_dist_plot_data[c][s] = bins
                         /\ \A l \in bins :
                               LET J == {i \in I : l \in Ls(i)}
                                   i == CHOOSE i \in J : \A j \in J : j <= i
                                   f == Catalog[found[i]]
                               IN  len_dist_plot_data[c][s][l] =
                                       IF col(f.mode, c) = 0 THEN 0
                                       ELSE RowVal(f.v, l, col(f.mode, c))

C11_Witness ==
    /\ AR /\ pc = "done"
    /\ \E s, t, u \in DOMAIN len_dist_plot_data["all"] :
          /\ \E l \in DOMAIN len_dist_plot_data["all"][s] :
                /\ len_dist_plot_data["collapsed_truncated"][s][l] # 0
                /\ len_dist_plot_data["all"][s][l] # 0
          /\ \E l \in DOMAIN len_dist_plot_data["all"][t] :
                /\ len_dist_plot_data["mate2"][t][l] = 0
                /\ len_dist_plot_data["all"][t][l] # 0
          /\ \E l \in DOMAIN len_dist_plot_data["all"][u] :
                /\ len_dist_plot_data["singleton"][u][l] # 0
                /\ len_dist_plot_data["collapsed"][u][l] = 0

\* The lines of a file at the places in S, in file order.
LinesAt(S) ==
    [k \in 1..Cardinality(S) |->
        scanned[CHOOSE i \in S : Cardinality({j \in S : j <= i}) = k]]

\* C12: whatever lines have been read, settings_data holds the 'header'
\* block and one block per title line, where the first non-empty line goes
\* to 'header', every later line starting with '[' is a title line that
\* opens the block of its stripped text, empty, and is not stored, every
\* other non-empty line belongs to the block opened last before it
\* ('header' when none was), and a block holds, in file order, its lines
\* that come after the last title line of its name.
C12_Scanner ==
    LET N == {i \in 1..Len(scanned) : ~is_empty(scanned[i])}
        first == CHOOSE i \in N : \A j \in N : i <= j
        T == {i \in N : i # first /\ startswith_bracket(scanned[i])}
        name(t) == strip_brackets(scanned[t])
        opened(i) == {t \in T : t < i}
        owner(i) == IF opened(i) = {} THEN "header"
                    ELSE name(CHOOSE t \in opened(i) : \A u \in opened(i) : u <= t)
        kept(b) == {i \in N \ T : /\ owner(i) = b
                                  /\ \A t \in T : name(t) = b => t < i}
    IN  /\ DOMAIN cur_settings_data = {"header"} \cup {name(t) : t \in T}
        /\ \A b \in DOMAIN cur_settings_data : cur_settings_data[b] = LinesAt(kept(b))

\* The document a pycoQC file of the catalog holds, as a mapping.
PqDocument(id) ==
    LET e == PqCatalog[id] IN
    IF e.defect = "empty" THEN NoneVal
    ELSE [k \in {"pycoqc", "All Reads"}
                    \cup (IF e.defect = "no_pass" THEN {} ELSE {"Pass Reads"}) |->
             CASE k = "pycoqc" -> [version |-> e.v]
               [] k = "All Reads" -> PqSection(e.v, FALSE, e.defect)
               [] k = "Pass Reads" -> PqSection(e.v, TRUE, e.defect)]

C13_LastWins ==
    PQ => /\ DOMAIN pycoqc_data = {PqCatalog[found[i]].name : i \in Idx}
          /\ \A s \in DOMAIN pycoqc_data : pycoqc_data[s] = PqDocument(found[PqLast(s)])

C13_Frame ==
    (PQ /\ found' # found) =>
        \A s \in DOMAIN pycoqc_data :
            s # PqCatalog[found'[Len(found')]].name
                => (s \in DOMAIN pycoqc_data' /\ pycoqc_data'[s] = pycoqc_data[s])

\* C13: in the pycoQC module, pycoqc_data always holds one entry per distinct
\* sample name of the files met so far, the entry of a name is the document
\* of the last file with that name, and the step of a file leaves the
\* entries of all other names as they were.
C13_Replace == []C13_LastWins /\ [][C13_Frame]_vars

C13_Witness ==
    /\ PQ /\ Len(found) = MaxFiles
    /\ Cardinality(DOMAIN pycoqc_data) = 2
    /\ \E i, j, k \in Idx :
          /\ i < j /\ k < j
          /\ PqCatalog[found[i]].name = PqCatalog[found[j]].name
          /\ PqCatalog[found[i]].v # PqCatalog[found[j]].v
          /\ PqCatalog[found[k]].name # PqCatalog[found[j]].name
          /\ \A m \in Idx : PqCatalog[found[m]].defect = "ok"
          /\ pycoqc_data[PqCatalog[found[j]].name] = PqDocument(found[j])
          /\ pycoqc_data[PqCatalog[found[j]].name] # PqDocument(found[i])

====
